---- MODULE Spec2Model ----
(***************************************************************************)
(* Model of package cmd (beevik/cmd): a tree of commands and subtrees,     *)
(* each tree with a prefix index, and the Lookup / Autocomplete walks.     *)
(* Strings are sequences of one-character strings.                         *)
(***************************************************************************)
EXTENDS Naturals, Integers, Sequences, FiniteSets, TLC

VARIABLES nodes, commands, subtrees, pt, shortcuts, res

vars == <<nodes, commands, subtrees, pt, shortcuts, res>>
tree == <<nodes, commands, subtrees, pt, shortcuts>>

\* ---------------------------------------------------------------- bounds
MaxLineLen == 3
MaxFields == 3
MaxTargetFields == 2
MaxRegs == 3
MaxTokLen == 5

\* ------------------------------------------------------------ characters
SP == " "
TAB == "\t"
QUOTE == "\""
WS == {SP, TAB}
Letters == {"a", "b"}
Alphabet == Letters \cup WS \cup {QUOTE}

Ord == (TAB :> 9) @@ (SP :> 32) @@ (QUOTE :> 34) @@ ("a" :> 97) @@ ("b" :> 98)

Str(n) == UNION {[1..k -> Alphabet] : k \in 0..n}

\* the words typed in lines, and the lines of at most n words joined by spaces
Words == {<<"a">>, <<"a", "a">>, <<"a", "b">>, <<"b">>}
RECURSIVE Joined(_)
Joined(n) ==
    IF n = 0 THEN {<<>>}
    ELSE Joined(n - 1) \cup Words
         \cup {l \o <<SP>> \o w : l \in Joined(n - 1) \ {<<>>}, w \in Words}

\* the lines given to the queries, and the target paths given to AddShortcut
Lines == Str(MaxLineLen) \cup Joined(MaxFields)
Targets == Joined(MaxTargetFields)

\* names given to commands and subtrees, and strings offered as shortcuts
Names == {<<"a">>, <<"a", "a">>, <<"a", "b">>}
ShortcutStrs == Names \cup {<<>>, <<TAB>>, <<"b">>, <<SP, "b">>, <<"b", SP, "b">>, <<QUOTE, "b">>}

\* ------------------------------------------------------------ the errors
NoErr == "nil"
ErrAmbiguous == "Command is ambiguous"
ErrNotFound == "Command not found"
ErrInvalidShortcut == "invalid shortcut"
ErrPrefixAmbiguous == "prefixtree: prefix ambiguous"
ErrPrefixNotFound == "prefixtree: prefix not found"

Nil == 0
Root == 1

\* ------------------------------------------------------- string helpers
IsPrefix(p, s) == Len(p) <= Len(s) /\ SubSeq(s, 1, Len(p)) = p

\* byte-wise string order (Go's < on strings)
Less(s, u) ==
    \E i \in 1..(Len(s) + 1) :
        /\ i <= Len(u)
        /\ \A j \in 1..(i - 1) : s[j] = u[j]
        /\ (i = Len(s) + 1 \/ Ord[s[i]] < Ord[u[i]])

\* the mutant strips spaces only
stripLeadingWhitespace_SpacesOnly(s) ==
    IF \E i \in 1..Len(s) : s[i] # SP
    THEN LET i == CHOOSE k \in 1..Len(s) :
                     s[k] # SP /\ \A j \in 1..(k - 1) : s[j] = SP
         IN  SubSeq(s, i, Len(s))
    ELSE <<>>

stripLeadingWhitespace(s) ==
    IF \E i \in 1..Len(s) : s[i] \notin WS
    THEN LET i == CHOOSE k \in 1..Len(s) :
                     s[k] \notin WS /\ \A j \in 1..(k - 1) : s[j] \in WS
         IN  SubSeq(s, i, Len(s))
    ELSE <<>>

\* the mutant returns the text after the field as it stands
nextField_NoRemainStrip(s) ==
    IF Len(s) > 0 /\ s[1] = QUOTE
    THEN IF \E i \in 2..Len(s) : s[i] = QUOTE
         THEN LET q == CHOOSE k \in 2..Len(s) :
                          s[k] = QUOTE /\ \A j \in 2..(k - 1) : s[j] # QUOTE
              IN  [field |-> SubSeq(s, 2, q - 1), remain |-> SubSeq(s, q + 1, Len(s))]
         ELSE [field |-> SubSeq(s, 2, Len(s)), remain |-> <<>>]
    ELSE IF \E i \in 1..Len(s) : s[i] \in WS
         THEN LET w == CHOOSE k \in 1..Len(s) :
                          s[k] \in WS /\ \A j \in 1..(k - 1) : s[j] \notin WS
              IN  [field |-> SubSeq(s, 1, w - 1), remain |-> SubSeq(s, w, Len(s))]
         ELSE [field |-> s, remain |-> <<>>]

nextField(s) ==
    IF Len(s) > 0 /\ s[1] = QUOTE
    THEN IF \E i \in 2..Len(s) : s[i] = QUOTE
         THEN LET q == CHOOSE k \in 2..Len(s) :
                          s[k] = QUOTE /\ \A j \in 2..(k - 1) : s[j] # QUOTE
              IN  [field |-> SubSeq(s, 2, q - 1),
                   remain |-> stripLeadingWhitespace(SubSeq(s, q + 1, Len(s)))]
         ELSE [field |-> SubSeq(s, 2, Len(s)), remain |-> <<>>]
    ELSE IF \E i \in 1..Len(s) : s[i] \in WS
         THEN LET w == CHOOSE k \in 1..Len(s) :
                          s[k] \in WS /\ \A j \in 1..(k - 1) : s[j] \notin WS
              IN  [field |-> SubSeq(s, 1, w - 1),
                   remain |-> stripLeadingWhitespace(SubSeq(s, w, Len(s)))]
         ELSE [field |-> s, remain |-> <<>>]

\* strings.Fields: the maximal runs of non-whitespace characters
RECURSIVE Fields(_)
Fields(s) ==
    LET r == stripLeadingWhitespace(s)
    IN  IF r = <<>> THEN <<>>
        ELSE LET n == IF \E i \in 1..Len(r) : r[i] \in WS
                      THEN (CHOOSE k \in 1..Len(r) :
                               r[k] \in WS /\ \A j \in 1..(k - 1) : r[j] \notin WS) - 1
                      ELSE Len(r)
             IN  <<SubSeq(r, 1, n)>> \o Fields(SubSeq(r, n + 1, Len(r)))

\* ---------------------------------------------------- the prefix index
\* An index is a function from its keys to node ids.
EmptyIndex == [k \in {} |-> Nil]

\* prefixtree.New
New == EmptyIndex

\* prefixtree.Add of a key the index does not hold yet
Add(ix, key, n) == [k \in (DOMAIN ix) \cup {key} |-> IF k = key THEN n ELSE ix[k]]

\* prefixtree.Add: on a key the index already holds the outcome is not
\* specified, so either the old or the new node is mapped afterwards
AddOutcomes(ix, key, n) ==
    IF key \in DOMAIN ix THEN {ix, Add(ix, key, n)} ELSE {Add(ix, key, n)}

Matches(ix, q) == {k \in DOMAIN ix : IsPrefix(q, k)}

FindValue(ix, q) ==
    IF q = <<>> THEN [value |-> Nil, err |-> ErrPrefixNotFound]
    ELSE IF q \in DOMAIN ix THEN [value |-> ix[q], err |-> NoErr]
    ELSE LET m == Matches(ix, q)
         IN  IF m = {} THEN [value |-> Nil, err |-> ErrPrefixNotFound]
             ELSE IF Cardinality(m) > 1 THEN [value |-> Nil, err |-> ErrPrefixAmbiguous]
             ELSE [value |-> ix[CHOOSE k \in m : TRUE], err |-> NoErr]

RECURSIVE SortKeys(_)
SortKeys(S) ==
    IF S = {} THEN <<>>
    ELSE LET m == CHOOSE k \in S : \A o \in S : o = k \/ Less(k, o)
         IN  <<m>> \o SortKeys(S \ {m})

FindKeyValues(ix, prefix) ==
    LET ks == SortKeys(Matches(ix, prefix))
    IN  [i \in 1..Len(ks) |-> [Key |-> ks[i], Value |-> ix[ks[i]]]]

\* ------------------------------------------------------------- the tree
Trees == {i \in 1..Len(nodes) : nodes[i].kind = "Tree"}
Commands == {i \in 1..Len(nodes) : nodes[i].kind = "Command"}

IsCommand(n) == n \in Commands

RECURSIVE SumLen(_, _)
SumLen(f, S) ==
    IF S = {} THEN 0
    ELSE LET x == CHOOSE y \in S : TRUE IN Len(f[x]) + SumLen(f, S \ {x})

\* number of registration calls that changed the tree so far
NumRegs == (Len(nodes) - 1) + SumLen(shortcuts, DOMAIN shortcuts)

\* ----------------------------------------------------------- Tree.Lookup
\* the mutant collects the arguments in reverse order
RECURSIVE Args_Reversed(_)
Args_Reversed(remain) ==
    IF remain = <<>> THEN <<>>
    ELSE LET nf == nextField(remain) IN Args_Reversed(nf.remain) \o <<nf.field>>

\* the residual arguments: the fields of remain, left to right
RECURSIVE Args(_)
Args(remain) ==
    IF remain = <<>> THEN <<>>
    ELSE LET nf == nextField(remain) IN <<nf.field>> \o Args(nf.remain)

\* the query of the current index (pt.FindValue(field)); the mutants are
\* an ambiguity test made before the exact match, and exact matches only
LookupFind_AmbiguityFirst(ix, field) ==
    IF Cardinality(Matches(ix, field)) > 1
    THEN [value |-> Nil, err |-> ErrPrefixAmbiguous]
    ELSE FindValue(ix, field)

LookupFind_ExactOnly(ix, field) ==
    IF field \in DOMAIN ix THEN FindValue(ix, field)
    ELSE [value |-> Nil, err |-> ErrPrefixNotFound]

\* a third mutant counts the nodes matched instead of the keys
LookupFind_ByNode(ix, field) ==
    IF /\ field # <<>>
       /\ field \notin DOMAIN ix
       /\ Matches(ix, field) # {}
       /\ Cardinality({ix[k] : k \in Matches(ix, field)}) = 1
    THEN [value |-> ix[CHOOSE k \in Matches(ix, field) : TRUE], err |-> NoErr]
    ELSE FindValue(ix, field)

LookupFind(ix, field) == FindValue(ix, field)

\* the switch on the index's error; the mutant reports every error as
\* ErrNotFound
LookupErr_AllNotFound(e) ==
    IF e = NoErr THEN NoErr ELSE ErrNotFound

LookupErr(e) ==
    IF e = ErrPrefixAmbiguous THEN ErrAmbiguous
    ELSE IF e = ErrPrefixNotFound THEN ErrNotFound
    ELSE NoErr

\* the failing returns; the mutant returns the subtree reached so far
LookupFail_Partial(t, e, qs) ==
    IF e = ErrNotFound /\ Len(qs) > 1
    THEN [n |-> t, args |-> <<>>, err |-> NoErr, queries |-> qs]
    ELSE [n |-> Nil, args |-> <<>>, err |-> e, queries |-> qs]

LookupFail(t, e, qs) == [n |-> Nil, args |-> <<>>, err |-> e, queries |-> qs]

\* the tree whose index the next field is looked up in (pt = subtree.pt);
\* the mutant keeps the index of the tree Lookup was called on
NextIndexOf_Stale(t, subtree) == t

NextIndexOf(t, subtree) == subtree

\* the loop of Lookup; qs is the list of index queries made so far
RECURSIVE LookupLoop(_, _, _, _)
LookupLoop(t, field, remain, qs) ==
    LET r == LookupFind(pt[t], field)
        qs2 == Append(qs, [t |-> t, field |-> field, remain |-> remain])
    IN  IF LookupErr(r.err) # NoErr
        THEN LookupFail(t, LookupErr(r.err), qs2)
        ELSE IF IsCommand(r.value)
        THEN [n |-> r.value, args |-> Args(remain), err |-> NoErr, queries |-> qs2]
        ELSE IF remain = <<>>
        THEN [n |-> r.value, args |-> Args(remain), err |-> NoErr, queries |-> qs2]
        ELSE LET nf == nextField(remain)
             IN  LookupLoop(NextIndexOf(t, r.value), nf.field, nf.remain, qs2)

\* the mutant queries the index without the test for an empty first field
Lookup_NoGuard(t, line) ==
    LET nf == nextField(stripLeadingWhitespace(line))
    IN  LookupLoop(t, nf.field, nf.remain, <<>>)

Lookup(t, line) ==
    LET nf == nextField(stripLeadingWhitespace(line))
    IN  IF nf.field = <<>>
        THEN [n |-> Nil, args |-> <<>>, err |-> ErrNotFound, queries |-> <<>>]
        ELSE LookupLoop(t, nf.field, nf.remain, <<>>)

\* ------------------------------------------------------ Tree.Autocomplete
\* string concatenation written as in the source
Cat(s, u) == s \o u

\* the suggestions for several matches (results = append(results,
\* prefix+match.Key)); the mutant leaves the accumulated path out
Results_KeysOnly(prefix, matches) ==
    [i \in 1..Len(matches) |-> matches[i].Key]

Results(prefix, matches) ==
    [i \in 1..Len(matches) |-> Cat(prefix, matches[i].Key)]

\* the single match is a Command; the mutant suggests it whatever follows
CommandResult_IgnoreRemain(prefix, match, remain) ==
    <<Cat(prefix, match.Key)>>

CommandResult(prefix, match, remain) ==
    IF remain # <<>> THEN <<>> ELSE <<Cat(prefix, match.Key)>>

\* the single match is a subtree: the test for suggesting its name
\* (remain == "" && field != subtree.Name); the mutant never looks at the name
SubtreeStops_NoInput(field, remain, name) == remain = <<>>

\* a second mutant never suggests the name and always goes down
SubtreeStops_Never(field, remain, name) == FALSE

SubtreeStops(field, remain, name) == remain = <<>> /\ field # name

\* the accumulated path after a descent (prefix += match.Key + " "); the
\* mutant leaves the space out
NextPrefix_NoSpace(prefix, key) == Cat(prefix, key)

NextPrefix(prefix, key) == Cat(prefix, Cat(key, <<SP>>))

\* the loop of Autocomplete; qs is the list of index queries made so far
RECURSIVE AutocompleteLoop(_, _, _, _, _)
AutocompleteLoop(t, prefix, field, remain, qs) ==
    LET matches == FindKeyValues(pt[t], field)
        qs2 == Append(qs, [t |-> t, field |-> field, remain |-> remain])
    IN  IF Len(matches) = 0
        THEN [out |-> <<>>, queries |-> qs2]
        ELSE IF Len(matches) > 1
        THEN IF remain # <<>>
             THEN [out |-> <<>>, queries |-> qs2]
             ELSE [out |-> Results(prefix, matches), queries |-> qs2]
        ELSE LET match == matches[1]
             IN  IF IsCommand(match.Value)
                 THEN [out |-> CommandResult(prefix, match, remain), queries |-> qs2]
                 ELSE IF SubtreeStops(field, remain, nodes[match.Value].name)
                 THEN [out |-> <<Cat(prefix, match.Key)>>, queries |-> qs2]
                 ELSE LET nf == nextField(remain)
                      IN  AutocompleteLoop(match.Value, NextPrefix(prefix, match.Key),
                                           nf.field, nf.remain, qs2)

Autocomplete(t, line) ==
    LET nf == nextField(stripLeadingWhitespace(line))
    IN  AutocompleteLoop(t, <<>>, nf.field, nf.remain, <<>>)

\* --------------------------------------- LookupCommand and LookupSubtree
\* the mutant returns whatever node Lookup found
LookupCommand_NoTypeCheck(t, line) ==
    LET r == Lookup(t, line)
    IN  IF r.err # NoErr
        THEN [n |-> Nil, args |-> <<>>, nilargs |-> TRUE, err |-> r.err, queries |-> r.queries]
        ELSE [n |-> r.n, args |-> r.args, nilargs |-> FALSE, err |-> NoErr, queries |-> r.queries]

LookupCommand(t, line) ==
    LET r == Lookup(t, line)
    IN  IF r.err # NoErr
        THEN [n |-> Nil, args |-> <<>>, nilargs |-> TRUE, err |-> r.err, queries |-> r.queries]
        ELSE IF IsCommand(r.n)
        THEN [n |-> r.n, args |-> r.args, nilargs |-> FALSE, err |-> NoErr, queries |-> r.queries]
        ELSE [n |-> Nil, args |-> <<>>, nilargs |-> TRUE, err |-> ErrNotFound, queries |-> r.queries]

\* the mutant returns whatever node Lookup found
LookupSubtree_NoTypeCheck(t, line) ==
    LET r == Lookup(t, line)
    IN  IF r.err # NoErr
        THEN [n |-> Nil, args |-> <<>>, nilargs |-> TRUE, err |-> r.err, queries |-> r.queries]
        ELSE [n |-> r.n, args |-> r.args, nilargs |-> FALSE, err |-> NoErr, queries |-> r.queries]

LookupSubtree(t, line) ==
    LET r == Lookup(t, line)
    IN  IF r.err # NoErr
        THEN [n |-> Nil, args |-> <<>>, nilargs |-> TRUE, err |-> r.err, queries |-> r.queries]
        ELSE IF r.n \in Trees
        THEN [n |-> r.n, args |-> r.args, nilargs |-> FALSE, err |-> NoErr, queries |-> r.queries]
        ELSE [n |-> Nil, args |-> <<>>, nilargs |-> TRUE, err |-> ErrNotFound, queries |-> r.queries]

\* -------------------------------------------------- sort.SearchStrings
\* sort.Search: the smallest index in [0, n) at which a[i] >= x, by bisection
RECURSIVE Search(_, _, _, _)
Search(a, x, i, j) ==
    IF i < j
    THEN LET h == (i + j) \div 2
         IN  IF Less(a[h + 1], x) THEN Search(a, x, h + 1, j) ELSE Search(a, x, i, h)
    ELSE i

\* the mutant returns the end of the slice: the shortcut is appended
SearchStrings_End(a, x) == Len(a)

SearchStrings(a, x) == Search(a, x, 0, Len(a))

\* append, copy up by one, store: the slice with x inserted at index i
InsertAt(a, i, x) == SubSeq(a, 1, i) \o <<x>> \o SubSeq(a, i + 1, Len(a))

\* the tree whose index receives the shortcut (t.pt.Add(shortcut, cmd)); the
\* mutant takes the tree that holds the command
ParentOf(c) == CHOOSE t \in Trees : \E i \in 1..Len(commands[t]) : commands[t][i] = c

ShortcutTree_Parent(t, c) == ParentOf(c)

ShortcutTree(t, c) == t

\* ------------------------------------- Command.Shortcuts and the help text
\* sort.Slice with less = c.shortcuts[i] < c.shortcuts[j]: the ascending
\* arrangement of the slice (equal strings cannot be told apart)
RECURSIVE SortSlice(_)
SortSlice(a) ==
    IF a = <<>> THEN <<>>
    ELSE LET i == CHOOSE k \in 1..Len(a) : \A j \in 1..Len(a) : ~Less(a[j], a[k])
         IN  <<a[i]>> \o SortSlice(SubSeq(a, 1, i - 1) \o SubSeq(a, i + 1, Len(a)))

\* strings.Join
RECURSIVE Join(_, _)
Join(a, sep) ==
    IF a = <<>> THEN <<>>
    ELSE IF Len(a) = 1 THEN a[1]
    ELSE a[1] \o sep \o Join(Tail(a), sep)

CommaSpace == <<",", " ">>
LabelShortcuts == <<"S", "h", "o", "r", "t", "c", "u", "t", "s", ":", " ">>
LabelShortcut == <<"S", "h", "o", "r", "t", "c", "u", "t", ":", " ">>
TwoNewlines == <<"\n", "\n">>

\* Command.DisplayShortcuts: the text written for command c
DisplayShortcuts(c) ==
    IF shortcuts[c] = <<>> THEN <<>>
    ELSE IF Len(shortcuts[c]) > 1
    THEN LabelShortcuts \o Join(shortcuts[c], CommaSpace) \o TwoNewlines
    ELSE LabelShortcut \o shortcuts[c][1] \o TwoNewlines

\* ----------------------------------------------------------------- Init
\* the record of a call: the operation, the tree it was called on, its inputs
\* (line, arg), what it returned (n, args, err, out), the index queries it
\* made, and for a registration whether its key was in the index already
Idle == [op |-> "idle", t |-> Nil, line |-> <<>>, arg |-> <<>>, n |-> Nil,
         args |-> <<>>, nilargs |-> FALSE, err |-> NoErr,
         queries |-> <<>>, out |-> <<>>, dup |-> FALSE]

Init ==
    /\ nodes = <<[kind |-> "Tree", name |-> <<>>]>>
    /\ commands = (Root :> <<>>)
    /\ subtrees = (Root :> <<>>)
    /\ pt = (Root :> New)
    /\ shortcuts = [c \in {} |-> <<>>]
    /\ res = Idle

\* -------------------------------------------------------------- actions
\* The caller makes one call at a time: a call is made when no result is
\* pending, and Return takes the result.
Return ==
    /\ res.op # "idle"
    /\ res' = Idle
    /\ UNCHANGED tree

\* the mutant stores the typed first field as a further key of the node found
DoLookup_Caching ==
    /\ res.op = "idle"
    /\ \E line \in Lines :
         LET r == Lookup(Root, line)
         IN  /\ res' = [Idle EXCEPT !.op = "Lookup", !.t = Root, !.line = line, !.n = r.n,
                                    !.args = r.args, !.err = r.err, !.queries = r.queries]
             /\ pt' = IF r.err = NoErr
                      THEN [pt EXCEPT ![Root] = Add(@, r.queries[1].field, r.n)]
                      ELSE pt
    /\ UNCHANGED <<nodes, commands, subtrees, shortcuts>>

DoLookup ==
    /\ res.op = "idle"
    /\ \E line \in Lines :
         LET r == Lookup(Root, line)
         IN  res' = [Idle EXCEPT !.op = "Lookup", !.t = Root, !.line = line, !.n = r.n,
                                 !.args = r.args, !.err = r.err, !.queries = r.queries]
    /\ UNCHANGED tree

DoLookupCommand ==
    /\ res.op = "idle"
    /\ \E line \in Targets :
         LET r == LookupCommand(Root, line)
         IN  res' = [Idle EXCEPT !.op = "LookupCommand", !.t = Root, !.line = line,
                                 !.n = r.n, !.args = r.args, !.nilargs = r.nilargs,
                                 !.err = r.err, !.queries = r.queries]
    /\ UNCHANGED tree

DoLookupSubtree ==
    /\ res.op = "idle"
    /\ \E line \in Targets :
         LET r == LookupSubtree(Root, line)
         IN  res' = [Idle EXCEPT !.op = "LookupSubtree", !.t = Root, !.line = line,
                                 !.n = r.n, !.args = r.args, !.nilargs = r.nilargs,
                                 !.err = r.err, !.queries = r.queries]
    /\ UNCHANGED tree

DoAutocomplete ==
    /\ res.op = "idle"
    /\ \E line \in Lines :
         LET r == Autocomplete(Root, line)
         IN  res' = [Idle EXCEPT !.op = "Autocomplete", !.t = Root, !.line = line,
                                 !.out = r.out, !.queries = r.queries]
    /\ UNCHANGED tree

\* the mutant appends the command to the child list and leaves the index out
AddCommand_Unindexed ==
    /\ res.op = "idle"
    /\ NumRegs < MaxRegs
    /\ \E t \in Trees, name \in Names :
         LET c == Len(nodes) + 1
         IN  /\ nodes' = Append(nodes, [kind |-> "Command", name |-> name])
             /\ shortcuts' = shortcuts @@ (c :> <<>>)
             /\ commands' = [commands EXCEPT ![t] = Append(@, c)]
             /\ res' = [Idle EXCEPT !.op = "AddCommand", !.t = t, !.line = name, !.n = c,
                                    !.dup = (name \in DOMAIN pt[t])]
    /\ UNCHANGED <<subtrees, pt>>

AddCommand ==
    /\ res.op = "idle"
    /\ NumRegs < MaxRegs
    /\ \E t \in Trees, name \in Names :
         LET c == Len(nodes) + 1
         IN  /\ nodes' = Append(nodes, [kind |-> "Command", name |-> name])
             /\ shortcuts' = shortcuts @@ (c :> <<>>)
             /\ commands' = [commands EXCEPT ![t] = Append(@, c)]
             /\ \E ix \in AddOutcomes(pt[t], name, c) : pt' = [pt EXCEPT ![t] = ix]
             /\ res' = [Idle EXCEPT !.op = "AddCommand", !.t = t, !.line = name, !.n = c,
                                    !.dup = (name \in DOMAIN pt[t])]
    /\ UNCHANGED subtrees

AddSubtree ==
    /\ res.op = "idle"
    /\ NumRegs < MaxRegs
    /\ \E t \in Trees, name \in Names :
         LET s == Len(nodes) + 1
         IN  /\ nodes' = Append(nodes, [kind |-> "Tree", name |-> name])
             /\ commands' = commands @@ (s :> <<>>)
             /\ subtrees' = [subtrees EXCEPT ![t] = Append(@, s)] @@ (s :> <<>>)
             /\ \E ix \in AddOutcomes(pt[t], name, s) :
                    pt' = [pt EXCEPT ![t] = ix] @@ (s :> New)
             /\ res' = [Idle EXCEPT !.op = "AddSubtree", !.t = t, !.line = name, !.n = s,
                                    !.dup = (name \in DOMAIN pt[t])]
    /\ UNCHANGED shortcuts

\* the test of the shortcut string (len(strings.Fields(shortcut)) != 1 is
\* refused); the mutant refuses only a string without any field
ValidShortcut_AnyFields(shortcut) == Len(Fields(shortcut)) >= 1

ValidShortcut(shortcut) == Len(Fields(shortcut)) = 1

AddShortcut ==
    /\ res.op = "idle"
    /\ NumRegs < MaxRegs
    /\ \E t \in Trees, shortcut \in ShortcutStrs, target \in Targets :
         LET r == LookupCommand(t, target)
             fail(e) == /\ res' = [Idle EXCEPT !.op = "AddShortcut", !.t = t,
                                               !.line = target, !.arg = shortcut, !.err = e]
                        /\ UNCHANGED tree
         IN  IF ~ValidShortcut(shortcut) THEN fail(ErrInvalidShortcut)
             ELSE IF r.err # NoErr THEN fail(r.err)
             ELSE /\ shortcuts' = [shortcuts EXCEPT ![r.n] =
                                      InsertAt(@, SearchStrings(@, shortcut), shortcut)]
                  /\ \E ix \in AddOutcomes(pt[ShortcutTree(t, r.n)], shortcut, r.n) :
                         pt' = [pt EXCEPT ![ShortcutTree(t, r.n)] = ix]
                  /\ res' = [Idle EXCEPT !.op = "AddShortcut", !.t = t, !.line = target,
                                         !.arg = shortcut, !.n = r.n,
                                         !.dup = (shortcut \in DOMAIN pt[ShortcutTree(t, r.n)])]
                  /\ UNCHANGED <<nodes, commands, subtrees>>

\* Command.Shortcuts sorts the list in place and returns it
DoShortcuts ==
    /\ res.op = "idle"
    /\ \E c \in Commands :
         /\ shortcuts' = [shortcuts EXCEPT ![c] = SortSlice(@)]
         /\ res' = [Idle EXCEPT !.op = "Shortcuts", !.n = c, !.out = SortSlice(shortcuts[c])]
    /\ UNCHANGED <<nodes, commands, subtrees, pt>>

\* Command.DisplayHelp of a command without usage and description text: the
\* text is what DisplayShortcuts writes
DoDisplayHelp ==
    /\ res.op = "idle"
    /\ \E c \in Commands :
         res' = [Idle EXCEPT !.op = "DisplayHelp", !.n = c, !.out = <<DisplayShortcuts(c)>>]
    /\ UNCHANGED tree

Next ==
    \/ AddCommand
    \/ AddSubtree
    \/ AddShortcut
    \/ DoLookup
    \/ DoLookupCommand
    \/ DoLookupSubtree
    \/ DoAutocomplete
    \/ DoShortcuts
    \/ DoDisplayHelp
    \/ Return

Spec == Init /\ [][Next]_vars

\* ------------------------------------------- the field sequence of a line
\* The fields Lookup takes from a line whose first field resolves to a
\* Command: the first field, then one field per turn of the argument loop.
\* res.arg is the line, res.line the text not yet read, res.args the fields.
TokInit ==
    /\ nodes = <<[kind |-> "Tree", name |-> <<>>]>>
    /\ commands = (Root :> <<>>)
    /\ subtrees = (Root :> <<>>)
    /\ pt = (Root :> New)
    /\ shortcuts = [c \in {} |-> <<>>]
    /\ \E l \in Str(MaxTokLen) : res = [Idle EXCEPT !.op = "line", !.arg = l, !.line = l]

TokFirst ==
    /\ res.op = "line"
    /\ LET nf == nextField(stripLeadingWhitespace(res.line))
       IN  IF nf.field = <<>>
           THEN res' = [res EXCEPT !.op = "nofield", !.err = ErrNotFound]
           ELSE res' = [res EXCEPT !.op = "field", !.args = <<nf.field>>, !.line = nf.remain]
    /\ UNCHANGED tree

TokNext ==
    /\ res.op = "field"
    /\ res.line # <<>>
    /\ LET nf == nextField(res.line)
       IN  res' = [res EXCEPT !.args = Append(@, nf.field), !.line = nf.remain]
    /\ UNCHANGED tree

TokStep ==
    \/ TokFirst
    \/ TokNext

TokSpec == TokInit /\ [][TokStep]_vars

\* ------------------------------------------------ nextField on any string
\* nextField as the function it is, and as its callers use it for the first
\* field of a line. res.arg is the string, res.args holds the field returned
\* and res.line the remainder.
NfInit ==
    /\ nodes = <<[kind |-> "Tree", name |-> <<>>]>>
    /\ commands = (Root :> <<>>)
    /\ subtrees = (Root :> <<>>)
    /\ pt = (Root :> New)
    /\ shortcuts = [c \in {} |-> <<>>]
    /\ \E l \in Str(MaxTokLen) : res = [Idle EXCEPT !.op = "string", !.arg = l]

NfDirect ==
    /\ res.op = "string"
    /\ LET nf == nextField(res.arg)
       IN  res' = [res EXCEPT !.op = "nextField", !.args = <<nf.field>>, !.line = nf.remain]
    /\ UNCHANGED tree

NfStripped ==
    /\ res.op = "string"
    /\ LET nf == nextField(stripLeadingWhitespace(res.arg))
       IN  res' = [res EXCEPT !.op = "stripped", !.args = <<nf.field>>, !.line = nf.remain]
    /\ UNCHANGED tree

NfStep ==
    \/ NfDirect
    \/ NfStripped

NfSpec == NfInit /\ [][NfStep]_vars

\* ------------------------------------------------- reference definitions
\* The fields of a text, read one character at a time: fields are separated
\* by runs of spaces and tabs; a field opened by a double quote runs to the
\* next double quote (or to the end of the text), the quotes left out.
RECURSIVE Scan(_, _, _, _)
Scan(s, mode, cur, acc) ==
    IF s = <<>> THEN (IF mode = "gap" THEN acc ELSE Append(acc, cur))
    ELSE LET c == Head(s)
             r == Tail(s)
         IN  CASE mode = "gap" ->
                    IF c \in WS THEN Scan(r, "gap", <<>>, acc)
                    ELSE IF c = QUOTE THEN Scan(r, "quoted", <<>>, acc)
                    ELSE Scan(r, "word", <<c>>, acc)
               [] mode = "word" ->
                    IF c \in WS THEN Scan(r, "gap", <<>>, Append(acc, cur))
                    ELSE Scan(r, "word", Append(cur, c), acc)
               [] mode = "quoted" ->
                    IF c = QUOTE THEN Scan(r, "gap", <<>>, Append(acc, cur))
                    ELSE Scan(r, "quoted", Append(cur, c), acc)

RefFields(s) == Scan(s, "gap", <<>>, <<>>)

\* the i-th index query of the recorded call, and what the call did next
Q(i) == res.queries[i]
NumQ == Len(res.queries)
IsLookup == res.op = "Lookup"

\* the call went on from query i with node n: it descended into n when a
\* further query follows, and it returned n when query i was the last
WentOnWith(i, n) ==
    IF i = NumQ THEN res.err = NoErr /\ res.n = n
    ELSE Q(i + 1).t = n

\* the call failed at query i with error e and no partial result
FailedAt(i, e) ==
    i = NumQ /\ res.err = e /\ res.n = Nil /\ res.args = <<>>

ProperPrefixKeys(ix, f) == {k \in DOMAIN ix : IsPrefix(f, k) /\ k # f}

\* ---------------------------------------------------------------- claims
\* C1: at every level Lookup reaches, a field equal to a key of that level's
\* index resolves to that key's node, whatever longer keys it is a prefix of,
\* and the lookup never fails with ErrAmbiguous there.
C1_ExactKeyWins ==
    IsLookup =>
        \A i \in 1..NumQ :
            Q(i).field \in DOMAIN pt[Q(i).t] =>
                /\ WentOnWith(i, pt[Q(i).t][Q(i).field])
                /\ ~(i = NumQ /\ res.err = ErrAmbiguous)

C1_Witness ==
    /\ IsLookup
    /\ NumQ = 2
    /\ Q(2).field \in DOMAIN pt[Q(2).t]
    /\ ProperPrefixKeys(pt[Q(2).t], Q(2).field) # {}
    /\ res.n = pt[Q(2).t][Q(2).field]

\* the line with every path field written as the full key it resolved to
\* (in quotes, which Lookup removes), followed by the text after the path
KeyAt(i) == CHOOSE k \in DOMAIN pt[Q(i).t] : IsPrefix(Q(i).field, k) /\
                (Q(i).field \in DOMAIN pt[Q(i).t] => k = Q(i).field)
RECURSIVE FullPath(_)
FullPath(i) ==
    IF i > NumQ THEN <<>>
    ELSE <<QUOTE>> \o KeyAt(i) \o <<QUOTE, SP>> \o FullPath(i + 1)
FullLine == FullPath(1) \o Q(NumQ).remain

\* C2: a non-empty field that equals no key and is a proper prefix of exactly
\* one key of its level resolves to that key's node, and a line resolved
\* through such abbreviations gives the node and the arguments of the line
\* with the full keys.
C2_UniquePrefixResolves ==
    IsLookup =>
        /\ \A i \in 1..NumQ :
               LET ix == pt[Q(i).t]
                   f == Q(i).field
               IN  (f # <<>> /\ f \notin DOMAIN ix
                        /\ Cardinality(ProperPrefixKeys(ix, f)) = 1) =>
                       WentOnWith(i, ix[CHOOSE k \in ProperPrefixKeys(ix, f) : TRUE])
        /\ (res.err = NoErr /\ \A i \in 1..NumQ : QUOTE \notin {KeyAt(i)[j] : j \in 1..Len(KeyAt(i))}) =>
               /\ Lookup(res.t, FullLine).err = NoErr
               /\ Lookup(res.t, FullLine).n = res.n
               /\ Lookup(res.t, FullLine).args = res.args

C2_Witness ==
    /\ IsLookup
    /\ NumQ = 2
    /\ \A i \in 1..2 : Q(i).field \notin DOMAIN pt[Q(i).t]
    /\ res.err = NoErr
    /\ IsCommand(res.n)
    /\ res.args # <<>>

\* C3: a non-empty field that equals no key and is a proper prefix of two or
\* more keys of its level makes Lookup fail with ErrAmbiguous, whatever
\* follows it, with no node and no arguments.
C3_AmbiguousPrefixFails ==
    IsLookup =>
        \A i \in 1..NumQ :
            LET ix == pt[Q(i).t]
                f == Q(i).field
            IN  (f # <<>> /\ f \notin DOMAIN ix
                     /\ Cardinality(ProperPrefixKeys(ix, f)) >= 2) =>
                    FailedAt(i, ErrAmbiguous)

C3_Witness ==
    /\ IsLookup
    /\ NumQ = 2
    /\ Cardinality(ProperPrefixKeys(pt[Q(2).t], Q(2).field)) >= 2
    /\ Q(2).remain # <<>>
    /\ res.err = ErrAmbiguous

\* C4: a field that is a prefix of no key of its level makes Lookup fail with
\* ErrNotFound, also after earlier fields resolved, with no node and no
\* arguments.
C4_NoKeyFails ==
    IsLookup =>
        \A i \in 1..NumQ :
            Matches(pt[Q(i).t], Q(i).field) = {} => FailedAt(i, ErrNotFound)

C4_Witness ==
    /\ IsLookup
    /\ NumQ = 2
    /\ DOMAIN pt[Q(2).t] # {}
    /\ Matches(pt[Q(2).t], Q(2).field) = {}
    /\ res.err = ErrNotFound

\* C5: Lookup of an empty line, or of a line of spaces and tabs only, fails
\* with ErrNotFound and no node, and queries no index.
Blank(line) == \A i \in 1..Len(line) : line[i] \in WS

C5_BlankLineNotFound ==
    (IsLookup /\ Blank(res.line)) =>
        /\ res.err = ErrNotFound
        /\ res.n = Nil
        /\ res.queries = <<>>

C5_Witness ==
    /\ IsLookup
    /\ Len(res.line) >= 2
    /\ Blank(res.line)
    /\ DOMAIN pt[Root] # {}
    /\ res.err = ErrNotFound

\* the node a query resolves to, or Nil when the query fails
Resolved(i) == FindValue(pt[Q(i).t], Q(i).field).value

\* C6: once a field resolves to a Command, Lookup queries no further index,
\* succeeds with that Command, and its args are all the remaining fields of
\* the line in order, including those that equal keys.
C6_CommandTakesRest ==
    IsLookup =>
        \A i \in 1..NumQ :
            IsCommand(Resolved(i)) =>
                /\ i = NumQ
                /\ res.err = NoErr
                /\ res.n = Resolved(i)
                /\ res.args = RefFields(Q(i).remain)

C6_Witness ==
    /\ IsLookup
    /\ IsCommand(res.n)
    /\ Len(res.args) = 2
    /\ res.args[1] # res.args[2]
    /\ \E i \in 1..2 : res.args[i] \in DOMAIN pt[Root]

\* C7: Lookup returns a subtree only when the line ends right after the field
\* that resolved to it, and then with no arguments; when input remains after
\* such a field, the next field of the line is looked up in that subtree's
\* own index.
C7_SubtreeOnlyAtEnd ==
    IsLookup =>
        /\ (res.err = NoErr /\ res.n \in Trees) =>
               (Q(NumQ).remain = <<>> /\ res.args = <<>>)
        /\ \A i \in 1..NumQ :
               (Resolved(i) \in Trees /\ Q(i).remain # <<>>) =>
                   /\ i < NumQ
                   /\ Q(i + 1).t = Resolved(i)
                   /\ Q(i + 1).t # Q(i).t
                   /\ Q(i + 1).field = Head(RefFields(Q(i).remain))

C7_Witness ==
    /\ IsLookup
    /\ NumQ = 3
    /\ res.err = NoErr
    /\ res.n \in Trees
    /\ Q(2).field \in DOMAIN pt[Root]

\* the argument texts appended to a shortcut and to its target path
ArgTexts == {<<>>, <<"a">>, <<"b", SP, "a">>, <<QUOTE, "a", SP, "b", QUOTE>>,
             <<"a", "b", TAB, "a">>}

Chars(s) == {s[i] : i \in 1..Len(s)}

\* on tree t, shortcut s followed by any argument text gives command c and
\* the arguments that path p followed by the same text gives
SameAsPath(t, s, p, c) ==
    \A r \in ArgTexts :
        LET ls == Lookup(t, s \o <<SP>> \o r)
            lp == Lookup(t, p \o <<SP>> \o r)
        IN  /\ ls.err = NoErr /\ lp.err = NoErr
            /\ ls.n = c /\ lp.n = c
            /\ ls.args = lp.args

AddedShortcut == res.op = "AddShortcut" /\ res.err = NoErr

\* p is the command's path written in full: unquoted fields, each equal to a
\* key of its level, and nothing after them
FullKeyPath(t, p) ==
    /\ QUOTE \notin Chars(p)
    /\ Lookup(t, p).args = <<>>
    /\ \A i \in 1..Len(Lookup(t, p).queries) :
           Lookup(t, p).queries[i].field \in DOMAIN pt[Lookup(t, p).queries[i].t]

\* C8 as stated: after every successful AddShortcut(s, p), s followed by an
\* argument text looks up as p followed by that text.
C8_AnyShortcutSameAsPath ==
    AddedShortcut => SameAsPath(res.t, res.arg, res.line, res.n)

\* C8, amended: after a successful AddShortcut(s, p) on tree t, where s holds
\* no space, tab or double quote and was no key of t's index before the call,
\* and p is the full path of command c, s followed by any argument text looks
\* up as p followed by that text: command c and the same arguments.
C8_ShortcutSameAsPath ==
    (/\ AddedShortcut
     /\ ~res.dup
     /\ Chars(res.arg) \cap (WS \cup {QUOTE}) = {}
     /\ FullKeyPath(res.t, res.line))
        => SameAsPath(res.t, res.arg, res.line, res.n)

C8_Witness ==
    /\ AddedShortcut
    /\ ~res.dup
    /\ Chars(res.arg) \cap (WS \cup {QUOTE}) = {}
    /\ FullKeyPath(res.t, res.line)
    /\ Len(Lookup(res.t, res.line).queries) = 2
    /\ ProperPrefixKeys(pt[res.t], res.arg) # {}
    /\ SameAsPath(res.t, res.arg, res.line, res.n)

\* C9: the fields taken from a line are its runs of characters between spaces
\* and tabs, with a field opened by a double quote running to the next double
\* quote (or to the end of the line) and keeping its whitespace; no field is
\* empty unless the line holds a quote, and a line with no field, or with an
\* empty quoted first field, gives no field at all.
C9_FieldsOfLine ==
    /\ res.op = "field" =>
           /\ res.args \o RefFields(res.line) = RefFields(res.arg)
           /\ (\A i \in 1..Len(res.args) : res.args[i] # <<>>) \/ QUOTE \in Chars(res.arg)
           /\ (res.line # <<>> => Head(res.line) \notin WS)
    /\ res.op = "nofield" =>
           (RefFields(res.arg) = <<>> \/ Head(RefFields(res.arg)) = <<>>)

C9_Witness ==
    /\ res.op = "field"
    /\ res.line = <<>>
    /\ Head(res.arg) \in WS
    /\ res.arg[Len(res.arg)] \in WS
    /\ \E i \in 1..Len(res.args) : Chars(res.args[i]) \cap WS # {}

\* C10: a step of Lookup, LookupCommand, LookupSubtree or Autocomplete leaves
\* every index, child list and shortcut list as it was.
QueryOps == {"Lookup", "LookupCommand", "LookupSubtree", "Autocomplete"}

C10_QueriesLeaveTree ==
    [][res'.op \in QueryOps => UNCHANGED tree]_vars

C10_Witness ==
    /\ res.op \in QueryOps
    /\ res.n # Nil
    /\ \E t \in Trees : subtrees[t] # <<>>
    /\ \E c \in Commands : shortcuts[c] # <<>>

\* ------------------------------------------------ Autocomplete, reference
IsAutocomplete == res.op = "Autocomplete"

Range(o) == {o[i] : i \in 1..Len(o)}

\* strictly ascending in byte order
Ascending(o) == \A i \in 1..Len(o), j \in 1..Len(o) : i < j => Less(o[i], o[j])

\* the accumulated path before query i: the key each earlier field matched,
\* each followed by one space
RECURSIVE AccPath(_)
AccPath(i) ==
    IF i <= 1 THEN <<>> ELSE AccPath(i - 1) \o KeyAt(i - 1) \o <<SP>>

\* out lists exactly the paths path \o k for the keys k of K, ascending
ListsKeys(path, K) ==
    /\ Len(res.out) = Cardinality(K)
    /\ Range(res.out) = {path \o k : k \in K}
    /\ Ascending(res.out)

C12_ExactCommandKeyAlone ==
    IsAutocomplete =>
        \A i \in 1..NumQ :
            (/\ Q(i).remain = <<>>
             /\ Q(i).field \in DOMAIN pt[Q(i).t]
             /\ IsCommand(pt[Q(i).t][Q(i).field])) =>
                /\ i = NumQ
                /\ res.out = <<AccPath(i) \o Q(i).field>>

\* the candidates of query i, and its only candidate's node
Cands(i) == Matches(pt[Q(i).t], Q(i).field)
Only(i) == pt[Q(i).t][CHOOSE k \in Cands(i) : TRUE]

\* C13: Autocomplete returns the empty list when text follows a field that is
\* a prefix of two or more keys of its level, when text follows a field whose
\* only candidate is a Command, and when a field is a prefix of no key.
C13_NoSuggestionPastAmbiguityOrCommand ==
    IsAutocomplete =>
        \A i \in 1..NumQ :
            (\/ Cardinality(Cands(i)) >= 2 /\ Q(i).remain # <<>>
             \/ Cardinality(Cands(i)) = 1 /\ IsCommand(Only(i)) /\ Q(i).remain # <<>>
             \/ Cands(i) = {}) =>
                /\ i = NumQ
                /\ res.out = <<>>

C13_Witness ==
    /\ IsAutocomplete
    /\ NumQ = 2
    /\ Cardinality(Cands(2)) = 1
    /\ IsCommand(Only(2))
    /\ Q(2).field \in Cands(2)
    /\ Q(2).remain # <<>>
    /\ res.out = <<>>

\* the field after query i: the first field of the text that remains, or
\* the empty field when nothing remains
FieldAfter(i) ==
    IF Q(i).remain = <<>> THEN <<>> ELSE Head(RefFields(Q(i).remain))

\* C14: when the only candidate of a field is a subtree: with nothing after
\* the field and the field not the subtree's full name, Autocomplete returns
\* the subtree's full path as the single suggestion; otherwise it goes on in
\* the subtree's own index with the next field, every suggestion starting
\* with the accumulated path, the subtree's name and one space, and a fully
\* typed name with nothing after it lists the subtree's keys.
C14_SingleSubtreeCandidate ==
    IsAutocomplete =>
        \A i \in 1..NumQ :
            (Cardinality(Cands(i)) = 1 /\ Only(i) \in Trees) =>
                LET path == AccPath(i) \o nodes[Only(i)].name
                IN  IF Q(i).remain = <<>> /\ Q(i).field # nodes[Only(i)].name
                    THEN i = NumQ /\ res.out = <<path>>
                    ELSE /\ i < NumQ
                         /\ Q(i + 1).t = Only(i)
                         /\ Q(i + 1).field = FieldAfter(i)
                         /\ \A j \in 1..Len(res.out) : IsPrefix(path \o <<SP>>, res.out[j])
                         /\ Q(i).remain = <<>> =>
                                ListsKeys(path \o <<SP>>, DOMAIN pt[Only(i)])

C14_Witness ==
    /\ IsAutocomplete
    /\ NumQ = 2
    /\ Cardinality(Cands(1)) = 1
    /\ Only(1) \in Trees
    /\ Q(1).field = nodes[Only(1)].name
    /\ Q(1).remain = <<>>
    /\ Len(res.out) = 2

\* the m-th field typed, the empty field past the last one
FieldAt(fs, m) == IF m <= Len(fs) THEN fs[m] ELSE <<>>

\* s is a path of complete keys from tree t on, one key per level, joined by
\* single spaces, the key at position m having the m-th field of fs as a
\* prefix, and no field of fs left over
RECURSIVE IsKeyPath(_, _, _, _)
IsKeyPath(t, s, fs, m) ==
    \E k \in DOMAIN pt[t] :
        /\ IsPrefix(FieldAt(fs, m), k)
        /\ \/ s = k /\ m >= Len(fs)
           \/ /\ IsPrefix(k \o <<SP>>, s)
              /\ pt[t][k] \in Trees
              /\ IsKeyPath(pt[t][k], SubSeq(s, Len(k) + 2, Len(s)), fs, m + 1)

\* C15: every suggestion of Autocomplete is a path of complete stored keys,
\* one per tree level from the root on, joined by single spaces, in which
\* the key at each position has the field typed at that position as a
\* prefix; abbreviated earlier fields appear as their full keys.
C15_SuggestionsAreKeyPaths ==
    IsAutocomplete =>
        \A j \in 1..Len(res.out) :
            IsKeyPath(res.t, res.out[j], RefFields(res.line), 1)

C15_Witness ==
    /\ IsAutocomplete
    /\ NumQ = 3
    /\ Len(res.out) = 1
    /\ Q(1).field # KeyAt(1)
    /\ Q(2).field # KeyAt(2)
    /\ Q(3).field # <<>>
    /\ Len(res.out[1]) > Len(res.line)

\* ------------------------------------------------ shortcut lists, reference
NonDescending(o) == \A i \in 1..Len(o), j \in 1..Len(o) : i < j => ~Less(o[j], o[i])

\* the pieces of a text between the separators ", "
RECURSIVE SplitList(_, _)
SplitList(s, cur) ==
    IF s = <<>> THEN <<cur>>
    ELSE IF IsPrefix(CommaSpace, s)
    THEN <<cur>> \o SplitList(SubSeq(s, 3, Len(s)), <<>>)
    ELSE SplitList(Tail(s), Append(cur, Head(s)))

\* the list shown by a help text: what stands between the label, which ends
\* at the first ": ", and the two newlines at the end
ShownList(text) ==
    LET c == CHOOSE k \in 1..Len(text) :
                 text[k] = ":" /\ \A j \in 1..(k - 1) : text[j] # ":"
    IN  SplitList(SubSeq(text, c + 2, Len(text) - 2), <<>>)

\* C16: between calls every command's shortcut list is in ascending order,
\* whatever the order of registration; Shortcuts() returns the list in that
\* order and the help text shows it in that order.
C16_ShortcutsSorted ==
    /\ \A c \in Commands : NonDescending(shortcuts[c])
    /\ res.op = "Shortcuts" =>
           /\ res.out = shortcuts[res.n]
           /\ NonDescending(res.out)
    /\ (res.op = "DisplayHelp" /\ shortcuts[res.n] # <<>>) =>
           /\ ShownList(res.out[1]) = shortcuts[res.n]
           /\ NonDescending(ShownList(res.out[1]))

\* the shortcut registered last went in front of one registered before it
C16_Witness ==
    /\ AddedShortcut
    /\ Len(shortcuts[res.n]) = 2
    /\ shortcuts[res.n][1] = res.arg
    /\ Less(res.arg, shortcuts[res.n][2])

\* AddShortcut was called with a one-field shortcut and a target that Lookup
\* resolves to a subtree
ShortcutToSubtree ==
    /\ res.op = "AddShortcut"
    /\ Len(Fields(res.arg)) = 1
    /\ Lookup(res.t, res.line).err = NoErr
    /\ Lookup(res.t, res.line).n \in Trees

\* C17 as stated: AddShortcut(s, p) with p resolving to a subtree succeeds,
\* and Lookup(s) then returns that subtree as Lookup(p) does.
C17_ShortcutAliasesSubtree ==
    ShortcutToSubtree =>
        /\ res.err = NoErr
        /\ Lookup(res.t, res.arg).err = NoErr
        /\ Lookup(res.t, res.arg).n = Lookup(res.t, res.line).n

\* C17, amended: a shortcut aliases a Command only. AddShortcut(s, p) with p
\* resolving to a subtree fails with ErrNotFound, a failing AddShortcut
\* leaves every index, child list and shortcut list as it was, and every
\* index key that maps to a subtree is that subtree's own name.
C17_ShortcutAliasesCommandOnly ==
    /\ [](ShortcutToSubtree => res.err = ErrNotFound /\ res.n = Nil)
    /\ [](\A t \in Trees : \A k \in DOMAIN pt[t] :
              pt[t][k] \in Trees => k = nodes[pt[t][k]].name)
    /\ [][(res'.op = "AddShortcut" /\ res'.err # NoErr) => UNCHANGED tree]_vars

C17_Witness ==
    /\ ShortcutToSubtree
    /\ Len(Lookup(res.t, res.line).queries) = 2
    /\ res.arg \notin DOMAIN pt[res.t]
    /\ res.err = ErrNotFound

\* the error the claim names for a key that is in the index already; the
\* package declares no such error
ErrDuplicateKey == "DuplicateKey"

\* C18: a registration (AddCommand, AddSubtree, AddShortcut) whose key is in
\* the tree's index already fails with a DuplicateKey error and leaves every
\* index, child list and shortcut list as it was.
C18_DuplicateKeyRejected ==
    [][res'.dup => (res'.err = ErrDuplicateKey /\ UNCHANGED tree)]_vars

\* the recorded call returned what Lookup returns on its line: the same node,
\* the same arguments, the same error
AsLookup ==
    /\ res.n = Lookup(res.t, res.line).n
    /\ res.args = Lookup(res.t, res.line).args
    /\ res.err = Lookup(res.t, res.line).err

\* the recorded call failed with ErrNotFound, no node and nil arguments
NotFoundNil ==
    res.err = ErrNotFound /\ res.n = Nil /\ res.nilargs /\ res.args = <<>>

\* C19: LookupCommand fails with ErrNotFound, nil command and nil args, when
\* its line resolves to a subtree, and LookupSubtree fails with ErrNotFound
\* when its line resolves to a Command; in every other case each returns
\* the node, the arguments and the error of Lookup on that line.
C19_TypedLookups ==
    /\ res.op = "LookupCommand" =>
           IF Lookup(res.t, res.line).err = NoErr /\ Lookup(res.t, res.line).n \in Trees
           THEN NotFoundNil ELSE AsLookup
    /\ res.op = "LookupSubtree" =>
           IF Lookup(res.t, res.line).err = NoErr /\ IsCommand(Lookup(res.t, res.line).n)
           THEN NotFoundNil ELSE AsLookup

C19_Witness ==
    /\ res.op = "LookupSubtree"
    /\ Len(Lookup(res.t, res.line).queries) = 2
    /\ IsCommand(Lookup(res.t, res.line).n)
    /\ NotFoundNil

\* ------------------------------------------------- index keys, reference
Children(t) == Range(commands[t]) \cup Range(subtrees[t])
ChildNames(t) == {nodes[c].name : c \in Children(t)}

RECURSIVE NumKeys(_)
NumKeys(S) ==
    IF S = {} THEN 0
    ELSE LET t == CHOOSE x \in S : TRUE
         IN  Cardinality(DOMAIN pt[t]) + NumKeys(S \ {t})

\* every registration so far used a key its tree's index did not hold: each
\* added one key
DistinctKeys == NumKeys(Trees) = NumRegs

RegOps == {"AddCommand", "AddSubtree", "AddShortcut"}

\* the key a recorded registration put into the index of res.t
RegKey == IF res.op = "AddShortcut" THEN res.arg ELSE res.line

\* C20: after registrations that use distinct keys per level, the key set of
\* each tree's index is the names of its child commands and subtrees and the
\* shortcuts registered through it: each name maps to its own node, every
\* other key is a shortcut of the Command it maps to, and a registration of
\* a new key adds that key alone, to the index of the tree called, mapped to
\* the new node or to the Command the target resolved to before the call;
\* no registration removes a key, and none of a new key remaps one.
C20_IndexKeySet ==
    /\ [](DistinctKeys =>
            \A t \in Trees :
                /\ \A c \in Children(t) :
                       nodes[c].name \in DOMAIN pt[t] /\ pt[t][nodes[c].name] = c
                /\ \A k \in DOMAIN pt[t] \ ChildNames(t) :
                       IsCommand(pt[t][k]) /\ k \in Range(shortcuts[pt[t][k]]))
    /\ [][\A t \in Trees :
              /\ \A k \in DOMAIN pt[t] :
                     k \in DOMAIN pt'[t] /\ (~res'.dup => pt'[t][k] = pt[t][k])
              /\ (res'.op \in RegOps /\ res'.err = NoErr /\ ~res'.dup /\ res'.t = t) =>
                     /\ DOMAIN pt'[t] = DOMAIN pt[t] \cup {RegKey'}
                     /\ pt'[t][RegKey'] = res'.n
                     /\ res'.op = "AddShortcut" => res'.n = LookupCommand(t, res'.line).n
              /\ (res'.op \in RegOps /\ res'.t # t) => pt'[t] = pt[t]]_vars

C20_Witness ==
    /\ AddedShortcut
    /\ DistinctKeys
    /\ NumRegs = 3
    /\ res.n \notin Children(res.t)
    /\ res.arg \notin ChildNames(res.t)
    /\ pt[res.t][res.arg] = res.n

\* the error Lookup leaves to a caller that wants a Command: its own error,
\* or ErrNotFound when it resolved to a subtree
CommandErr(t, line) ==
    IF Lookup(t, line).err # NoErr THEN Lookup(t, line).err
    ELSE IF IsCommand(Lookup(t, line).n) THEN NoErr
    ELSE ErrNotFound

\* the number of whitespace-delimited tokens of s: the places where a
\* character that is no space or tab starts the text or follows a space or tab
NumWords(s) ==
    Cardinality({i \in 1..Len(s) : s[i] \notin WS /\ (i = 1 \/ s[i - 1] \in WS)})

\* C21: AddShortcut returns an error and changes no index and no list when
\* the shortcut string is not exactly one field (empty, blank, several
\* words), and when the target does not resolve to a Command; in the second
\* case the error is the ErrNotFound or ErrAmbiguous of the lookup.
C21_AddShortcutErrors ==
    [][res'.op = "AddShortcut" =>
          IF NumWords(res'.arg) # 1
          THEN res'.err \notin {NoErr, ErrNotFound, ErrAmbiguous} /\ UNCHANGED tree
          ELSE IF CommandErr(res'.t, res'.line) # NoErr
          THEN /\ res'.err = CommandErr(res'.t, res'.line)
               /\ res'.err \in {ErrNotFound, ErrAmbiguous}
               /\ UNCHANGED tree
          ELSE TRUE]_vars

C21_Witness ==
    /\ res.op = "AddShortcut"
    /\ NumWords(res.arg) = 2
    /\ CommandErr(res.t, res.line) = NoErr
    /\ Len(Lookup(res.t, res.line).queries) = 2
    /\ res.err = ErrInvalidShortcut

\* u is s without its leading spaces and tabs
StrippedOf(u, s) ==
    /\ \E k \in 0..Len(s) :
           u = SubSeq(s, k + 1, Len(s)) /\ \A j \in 1..k : s[j] \in WS
    /\ u # <<>> => Head(u) \notin WS

\* C22 as stated: nextField(s) returns the field and the remainder that
\* nextField returns for s without its leading spaces and tabs.
C22_NextFieldStrips ==
    res.op = "nextField" =>
        /\ res.args[1] = nextField(stripLeadingWhitespace(res.arg)).field
        /\ res.line = nextField(stripLeadingWhitespace(res.arg)).remain

\* C22, amended: nextField does not strip the front of s, its callers do.
\* For s that begins with a space or tab nextField(s) returns the empty
\* field and s without its leading whitespace as the remainder; what it
\* strips is the remainder, which never begins with a space or tab; and
\* nextField of the stripped s, which is what Lookup and Autocomplete call,
\* returns the first field of s and a remainder holding the other fields.
C22_CallersStrip ==
    /\ res.op = "nextField" =>
           /\ (res.arg # <<>> /\ Head(res.arg) \in WS) =>
                  res.args[1] = <<>> /\ StrippedOf(res.line, res.arg)
           /\ res.line # <<>> => Head(res.line) \notin WS
    /\ res.op = "stripped" =>
           /\ res.line # <<>> => Head(res.line) \notin WS
           /\ IF RefFields(res.arg) = <<>>
              THEN res.args[1] = <<>> /\ res.line = <<>>
              ELSE /\ res.args[1] = Head(RefFields(res.arg))
                   /\ RefFields(res.line) = Tail(RefFields(res.arg))

C22_Witness ==
    /\ res.op = "nextField"
    /\ res.arg # <<>>
    /\ Head(res.arg) \in WS
    /\ Chars(res.arg) \cap Letters # {}
    /\ res.args[1] = <<>>
    /\ Len(RefFields(res.line)) = 2

\* query i took the i-th field of the line, and went one level down from
\* the tree of the query before it
OneFieldOneLevel(i) ==
    /\ Q(i).field = FieldAt(RefFields(res.line), i)
    /\ i = 1 => Q(i).t = res.t
    /\ i > 1 => Q(i).t \in Range(subtrees[Q(i - 1).t])

\* C23: Lookup and Autocomplete end after a bounded number of index
\* queries: each query takes the next field of the line and is made one
\* tree level below the query before it; Lookup makes at most as many
\* queries as the line has fields, Autocomplete at most one more (no name
\* being empty).
C23_BoundedQueries ==
    /\ IsLookup =>
           /\ NumQ <= Len(RefFields(res.line))
           /\ \A i \in 1..NumQ : OneFieldOneLevel(i)
    /\ IsAutocomplete =>
           /\ NumQ <= Len(RefFields(res.line)) + 1
           /\ \A i \in 1..NumQ : OneFieldOneLevel(i)

C23_Witness ==
    /\ IsAutocomplete
    /\ Len(RefFields(res.line)) = 2
    /\ NumQ = 3
    /\ \A c \in Trees \ {Root} : nodes[c].name # <<>>

\* the non-empty proper prefixes of s that are made of letters
LetterPrefixes(s) ==
    {SubSeq(s, 1, n) : n \in 1..(Len(s) - 1)} \cap {f \in Str(Len(s)) : Chars(f) \subseteq Letters}

\* every key of K maps to one and the same Command
OneCommand(ix, K) == \E c \in Commands : \A k \in K : ix[k] = c

\* C24: ambiguity is decided on keys: a non-empty field that equals no key
\* and is a proper prefix of two or more keys of its level fails with
\* ErrAmbiguous also when all those keys map to the same Command; and after
\* a new shortcut is registered, a prefix of it that had one candidate key
\* before and is no key itself is ambiguous.
C24_AmbiguityOnKeys ==
    /\ IsLookup =>
           \A i \in 1..NumQ :
               (/\ Q(i).field # <<>>
                /\ Q(i).field \notin DOMAIN pt[Q(i).t]
                /\ Cardinality(ProperPrefixKeys(pt[Q(i).t], Q(i).field)) >= 2
                /\ OneCommand(pt[Q(i).t], ProperPrefixKeys(pt[Q(i).t], Q(i).field))) =>
                   FailedAt(i, ErrAmbiguous)
    /\ (AddedShortcut /\ ~res.dup) =>
           \A f \in LetterPrefixes(res.arg) :
               (/\ f \notin DOMAIN pt[res.t]
                /\ Cardinality(ProperPrefixKeys(pt[res.t], f) \ {res.arg}) = 1) =>
                   /\ Lookup(res.t, f).err = ErrAmbiguous
                   /\ Lookup(res.t, f).n = Nil

C24_Witness ==
    /\ AddedShortcut
    /\ ~res.dup
    /\ \E f \in LetterPrefixes(res.arg) :
           /\ f \notin DOMAIN pt[res.t]
           /\ Cardinality(ProperPrefixKeys(pt[res.t], f)) = 2
           /\ OneCommand(pt[res.t], ProperPrefixKeys(pt[res.t], f))
           /\ Lookup(res.t, f).err = ErrAmbiguous

\* C25: Lookup and Autocomplete agree on resolvable paths: for a line of
\* path fields only (no arguments) that Lookup resolves to a Command without
\* error, Autocomplete of the same line returns at least one suggestion.
C25_ResolvedLineHasSuggestion ==
    (IsLookup /\ res.err = NoErr /\ IsCommand(res.n) /\ res.args = <<>>) =>
        Autocomplete(res.t, res.line).out # <<>>
====
